---- MODULE Spec2Model ----
(***************************************************************************)
(* Model of the codeowners validator's not-owned-file check                *)
(* (internal/check/not_owned_file.go), of the process entry point          *)
(* (cmd/codeowners/codeowners.go) and of the check runner the entry point  *)
(* drives.                                                                 *)
(*                                                                         *)
(* Text is modelled as a sequence of tokens: a token is either the newline *)
(* NL, a separator, or an atomic string (a pattern or a path).  Two atomic *)
(* tokens that follow each other without a newline form ONE line of two    *)
(* tokens, which is how a pattern glued to an unterminated last line shows *)
(* up.                                                                     *)
(***************************************************************************)
EXTENDS Integers, Sequences, FiniteSets, TLC

\* ------------------------------------------------------------------ bounds
MaxEntries == 3
MaxSkip == 1
MaxChecks == 2

\* --------------------------------------------------------------- universe
NL == "\n"
IgnoreFile == ".gitignore"
\* ownership patterns (gitignore syntax): exact file names and one directory
Patterns == {"a", "b", "d/"}
\* the order `git ls-files` lists paths in (bytewise)
PathOrder == <<".gitignore", "a", "b", "d/c">>
\* the directory of a path ("" for the repository root)
DirOf(f) == IF f = "d/c" THEN "d" ELSE ""

RECURSIVE SeqsUpTo(_, _)
SeqsUpTo(S, n) ==
  IF n = 0 THEN {<<>>}
  ELSE LET shorter == SeqsUpTo(S, n - 1)
       IN  shorter \cup {Append(s, x) : s \in {t \in shorter : Len(t) = n - 1}, x \in S}

Range(s) == {s[i] : i \in 1..Len(s)}

VARIABLES
  \* --- inputs of NotOwnedFile.Check
  entries,      \* in.CodeownersEntries: sequence of [Pattern, Owners]
  cfg,          \* NotOwnedFileConfig: [TrustWorkspace, SkipPatterns, Subdirectories]
  ctxCanceled,  \* the cancellation token (ctx.Err() != nil)
  \* --- the repository at in.RepoDir
  head,         \* the commit checked out: [files: tracked paths, ignore: content of .gitignore]
  index,        \* the index: set of tracked paths
  gitignore,    \* the working tree's .gitignore: [exists, content]
  modified,     \* tracked paths whose working-tree content differs from HEAD
  untracked,    \* working-tree paths that are not tracked
  safeDir,      \* the repository is registered as safe.directory in the global config
  \* --- the frame of one NotOwnedFile.Check call
  pc,           \* position in Check
  patterns,     \* local `patterns`
  statusOut,    \* local `statusOut`: what git status printed
  output,       \* named result `output`: the issues
  err,          \* named result `err`: sequence of error causes, <<>> is nil
  errReset,     \* the deferred function's errReset, <<>> is nil
  failedStep,   \* the operation of the sequence that failed, "" while none did
  calls,        \* the operations performed so far, in order
  pre,          \* the repository as it was when Check was called, and whether
                \* the entry test found the token canceled
  \* --- the check runner and the process
  checks,       \* the ordered check list
  threshold,    \* cfg.CheckFailureLevel
  nextCheck,    \* index of the next check to launch
  running,      \* indexes of the checks being executed
  results,      \* per check: "none" or [issues, failed]
  runErr,       \* the run's terminal error, <<>> is none
  mainpc,       \* position in the root command's Run
  exitCode      \* the process exit code, -1 while running

checkVars == <<pc, patterns, statusOut, output, err, errReset, failedStep, calls, pre>>
repoVars == <<head, index, gitignore, modified, untracked, safeDir>>
inputVars == <<entries, cfg>>
runnerVars == <<checks, threshold, nextCheck, running, results, runErr, mainpc, exitCode>>
vars == <<entries, cfg, ctxCanceled, head, index, gitignore, modified, untracked, safeDir,
          pc, patterns, statusOut, output, err, errReset, failedStep, calls, pre,
          checks, threshold, nextCheck, running, results, runErr, mainpc, exitCode>>

\* ------------------------------------------------------------ text helpers
\* variant: the output is split without being trimmed
TrimSpace_none(t) == t
\* strings.TrimSpace on a token text: leading and trailing newlines go
RECURSIVE TrimLeft(_)
TrimLeft(t) == IF t # <<>> /\ Head(t) = NL THEN TrimLeft(Tail(t)) ELSE t
RECURSIVE TrimRight(_)
TrimRight(t) ==
  IF t # <<>> /\ t[Len(t)] = NL THEN TrimRight(SubSeq(t, 1, Len(t) - 1)) ELSE t
TrimSpace(t) == TrimRight(TrimLeft(t))

\* strings.Split(t, "\n"): the lines of t, each a sequence of atomic tokens;
\* n separators give n + 1 lines
RECURSIVE SplitFrom(_, _, _)
SplitFrom(t, cur, acc) ==
  IF t = <<>> THEN Append(acc, cur)
  ELSE IF Head(t) = NL THEN SplitFrom(Tail(t), <<>>, Append(acc, cur))
  ELSE SplitFrom(Tail(t), Append(cur, Head(t)), acc)
Split(t) == SplitFrom(t, <<>>, <<>>)

\* strings.Join(parts, sep) where the parts are token texts
RECURSIVE Join(_, _)
Join(parts, sep) ==
  IF parts = <<>> THEN <<>>
  ELSE IF Len(parts) = 1 THEN parts[1]
  ELSE parts[1] \o <<sep>> \o Join(Tail(parts), sep)

\* -------------------------------------------------------------- git model
\* a gitignore pattern p matches path f
Matches(p, f) == \/ p = f
                 \/ p = "d/" /\ DirOf(f) = "d"

\* the rules git reads from an ignore file: its non-empty lines
IgnoreRules(file) ==
  IF file.exists THEN SelectSeq(Split(file.content), LAMBDA l : l # <<>>) ELSE <<>>

\* path f is ignored under the working tree's ignore file
Ignored(f, file) ==
  \E i \in 1..Len(IgnoreRules(file)) :
    LET rule == IgnoreRules(file)[i] IN Len(rule) = 1 /\ Matches(rule[1], f)

\* the files present in the working tree
WorktreeFiles ==
  (head.files \ {IgnoreFile}) \cup untracked
    \cup (IF gitignore.exists THEN {IgnoreFile} ELSE {})

\* the ignore file as HEAD has it
HeadIgnore == [exists |-> IgnoreFile \in head.files, content |-> head.ignore]

\* `git status --porcelain`: the paths with an uncommitted change
GitStatusOutput ==
  modified
    \cup {f \in untracked : ~Ignored(f, gitignore)}
    \cup ((index \ head.files) \cup (head.files \ index))
    \cup (IF gitignore = HeadIgnore \/ (IgnoreFile \notin head.files /\ ~gitignore.exists)
          THEN {}
          ELSE IF IgnoreFile \in head.files \/ ~Ignored(IgnoreFile, gitignore)
          THEN {IgnoreFile} ELSE {})

\* `git ls-files -ci --exclude-standard`: the tracked paths that are ignored
GitIgnoredTracked == {f \in index : Ignored(f, gitignore)}

\* variant: the subdirectories are not passed to git ls-files
UnderSubdirs_all(f, subdirs) == TRUE
\* `git ls-files [subdirs...]`: one line per tracked path, in order
UnderSubdirs(f, subdirs) == subdirs = <<>> \/ DirOf(f) \in Range(subdirs)
RECURSIVE LsLines(_, _)
LsLines(order, keep) ==
  IF order = <<>> THEN <<>>
  ELSE (IF Head(order) \in keep THEN <<Head(order), NL>> ELSE <<>>)
         \o LsLines(Tail(order), keep)
GitLsFilesOutput(subdirs) ==
  LsLines(PathOrder, {f \in index : UnderSubdirs(f, subdirs)})

\* ------------------------------------------------- NotOwnedFile: pure parts
\* NewNotOwnedFile: the skip list becomes a set
NewNotOwnedFile(config) ==
  [skipPatterns   |-> Range(config.SkipPatterns),
   subDirectories |-> config.Subdirectories,
   trustWorkspace |-> config.TrustWorkspace]

\* the receiver `c` of the check's methods
c == NewNotOwnedFile(cfg)

\* variant: a skip-listed entry ends the loop (break instead of continue)
RECURSIVE patternsToBeIgnored_break(_, _)
patternsToBeIgnored_break(skip, ents) ==
  IF ents = <<>> THEN <<>>
  ELSE IF Head(ents).Pattern \in skip
       THEN <<>>
       ELSE <<Head(ents).Pattern>> \o patternsToBeIgnored_break(skip, Tail(ents))
\* patternsToBeIgnored: the loop over the entries, skipping skip-listed patterns
RECURSIVE patternsToBeIgnored(_, _)
patternsToBeIgnored(skip, ents) ==
  IF ents = <<>> THEN <<>>
  ELSE IF Head(ents).Pattern \in skip
       THEN patternsToBeIgnored(skip, Tail(ents))
       ELSE <<Head(ents).Pattern>> \o patternsToBeIgnored(skip, Tail(ents))

\* variant: the leading newline is not written
RECURSIVE PatternLines_noLead(_)
PatternLines_noLead(ps) ==
  IF ps = <<>> THEN <<>> ELSE <<Head(ps), NL>> \o PatternLines_noLead(Tail(ps))
AppendContent_noLead(ps) == PatternLines_noLead(ps)
\* the text AppendToGitignoreFile builds: a newline, then each pattern and a newline
RECURSIVE PatternLines(_)
PatternLines(ps) ==
  IF ps = <<>> THEN <<>> ELSE <<Head(ps), NL>> \o PatternLines(Tail(ps))
AppendContent(ps) == <<NL>> \o PatternLines(ps)

\* AppendToGitignoreFile on success: O_APPEND|O_CREATE, then one write
AppendToGitignoreFile(file, ps) ==
  [exists |-> TRUE, content |-> file.content \o AppendContent(ps)]

\* variant: the ignored paths are listed but nothing is removed from the index
GitRemoveIgnoredFiles_kept(idx) == idx
\* the index after GitRemoveIgnoredFiles succeeded
GitRemoveIgnoredFiles(idx) == idx \ GitIgnoredTracked

\* ListFormatFunc: a bullet in front of each line, joined by newlines
Bullet == "            * "
ListFormatFunc(es) == Join([i \in 1..Len(es) |-> <<Bullet>> \o es[i]], NL)

\* skipPatternsList: the keys of the skip map joined by commas; Go iterates a
\* map in an unspecified order, so every order of the keys is possible
Perms(S) == {s \in SeqsUpTo(S, Cardinality(S)) : Len(s) = Cardinality(S) /\ Range(s) = S}
skipPatternsList(order) == Join([i \in 1..Len(order) |-> <<order[i]>>], ",")

\* an issue of the output builder
Issue(text, count, skipped, body) ==
  [Message |-> [text |-> text, count |-> count, skipped |-> skipped, body |-> body]]
EmptyIssue ==
  Issue("The CODEOWNERS file is empty. The files in the repository don't have any owner.",
        0, <<>>, <<>>)
DirtyIssue ==
  Issue("git state is dirty: commit all changes before executing this check", 0, <<>>, <<>>)
\* variant: one issue is reported per listed line
NotOwnedIssues_perLine(out, order) ==
  LET lsOut == TrimSpace(out)
      lines == Split(lsOut)
  IN  IF lsOut # <<>>
      THEN [i \in 1..Len(lines) |->
              Issue("Found %d not owned files (skipped patterns: %q):\n%s",
                    1, skipPatternsList(order), ListFormatFunc(<<lines[i]>>))]
      ELSE <<>>
\* lines 97-102: the report built from the output of git ls-files
NotOwnedIssues(out, order) ==
  LET lsOut == TrimSpace(out)
      lines == Split(lsOut)
  IN  IF lsOut # <<>>
      THEN <<Issue("Found %d not owned files (skipped patterns: %q):\n%s",
                   Len(lines), skipPatternsList(order), ListFormatFunc(lines))>>
      ELSE <<>>

\* variant: the canceled entry returns a nil error
CanceledErr_nil == <<>>
\* lines 48-50: the error returned when the token is canceled at entry
CanceledErr == <<"context canceled">>

\* variant: the registration is made whatever the flag
TrustNeeded_always(flag) == TRUE
\* line 202: the registration is made only when trustWorkspace is set
TrustNeeded(flag) == flag

\* variant: the defer statement stands before the status query, so the
\* early returns run the reset too
AfterEarlyReturn_deferred == "reset"
\* lines 66-72: a return taken before the defer statement of line 74 ends
\* the call, no reset is pending
AfterEarlyReturn == "done"

\* variant: only two or more changed paths count as dirty
StatusIsDirty_single(out) == Cardinality(out) > 1
\* line 69: the tree is dirty when git status printed anything
StatusIsDirty(out) == out # {}

\* variant: the shortcut returns an empty output instead of the builder's
EmptyEntriesOutput_unreported == <<>>
\* lines 55-56: what the empty-entries shortcut returns
EmptyEntriesOutput == <<EmptyIssue>>

\* variant: the deferred function overwrites the error with the reset's
DeferredErr_resetOnly(e, eReset) == IF e # <<>> THEN eReset ELSE e
\* the deferred function's treatment of the results (lines 76-79):
\* multierror.Append skips a nil errReset
DeferredOutput(out, e) == IF e # <<>> THEN <<>> ELSE out
DeferredErr(e, eReset) == IF e # <<>> THEN e \o eReset ELSE e

\* the repository snapshot kept for comparison
Snapshot == [gitignore |-> gitignore, index |-> index, files |-> WorktreeFiles,
             modified |-> modified, untracked |-> untracked, canceled |-> FALSE]

\* ----------------------------------------------- NotOwnedFile.Check: steps
\* lines 47-59: cancellation at entry, the empty-entries shortcut, the patterns
CheckEntry ==
  /\ pc = "entry"
  /\ IF ctxCanceled
     THEN /\ output' = <<>>
          /\ err' = CanceledErr
          /\ pc' = "done"
          /\ UNCHANGED patterns
     ELSE IF Len(entries) = 0
     THEN /\ output' = EmptyEntriesOutput
          /\ err' = <<>>
          /\ pc' = "done"
          /\ UNCHANGED patterns
     ELSE /\ patterns' = patternsToBeIgnored(c.skipPatterns, entries)
          /\ pc' = "trust"
          /\ UNCHANGED <<output, err>>
  /\ pre' = [pre EXCEPT !.canceled = ctxCanceled]
  /\ UNCHANGED <<statusOut, errReset, failedStep, calls, ctxCanceled>>
  /\ UNCHANGED <<inputVars, repoVars, runnerVars>>

\* lines 61-63 and 201-213: trustWorkspaceIfNeeded
CheckTrust ==
  /\ pc = "trust"
  /\ IF ~TrustNeeded(c.trustWorkspace)
     THEN /\ pc' = "status"
          /\ UNCHANGED <<calls, safeDir, output, err, failedStep>>
     ELSE /\ calls' = Append(calls, "git config")
          /\ \E ok \in BOOLEAN :
               IF ok
               THEN /\ safeDir' = TRUE
                    /\ pc' = "status"
                    /\ UNCHANGED <<output, err, failedStep>>
               ELSE /\ output' = <<>>
                    /\ err' = <<"git config failed">>
                    /\ failedStep' = "git config"
                    /\ pc' = "done"
                    /\ UNCHANGED safeDir
  /\ UNCHANGED <<patterns, statusOut, errReset, pre, ctxCanceled>>
  /\ UNCHANGED <<inputVars, head, index, gitignore, modified, untracked, runnerVars>>

\* lines 65-72 and 158-170: GitCheckStatus and the dirty-tree shortcut;
\* past it the deferred reset is armed
CheckStatus ==
  /\ pc = "status"
  /\ calls' = Append(calls, "git status")
  /\ \E ok \in BOOLEAN :
       IF ~ok
       THEN /\ output' = <<>>
            /\ err' = <<"git status failed">>
            /\ failedStep' = "git status"
            /\ pc' = AfterEarlyReturn
            /\ UNCHANGED statusOut
       ELSE /\ statusOut' = GitStatusOutput
            /\ UNCHANGED failedStep
            /\ IF StatusIsDirty(statusOut')
               THEN /\ output' = <<DirtyIssue>>
                    /\ err' = <<>>
                    /\ pc' = AfterEarlyReturn
               ELSE /\ pc' = "append"
                    /\ UNCHANGED <<output, err>>
  /\ UNCHANGED <<patterns, errReset, pre, ctxCanceled>>
  /\ UNCHANGED <<inputVars, repoVars, runnerVars>>

\* lines 82-85 and 119-140: AppendToGitignoreFile; OpenFile may fail (nothing
\* changes) and WriteString may fail (the file was opened, so it exists)
CheckAppend ==
  /\ pc = "append"
  /\ calls' = Append(calls, "append")
  /\ \E outcome \in {"ok", "open failed", "write failed"} :
       /\ gitignore' = CASE outcome = "ok" -> AppendToGitignoreFile(gitignore, patterns)
                         [] outcome = "open failed" -> gitignore
                         [] OTHER -> [gitignore EXCEPT !.exists = TRUE]
       /\ IF outcome = "ok"
          THEN /\ pc' = "rm"
               /\ UNCHANGED <<output, err, failedStep>>
          ELSE /\ output' = <<>>
               /\ err' = <<outcome>>
               /\ failedStep' = "append"
               /\ pc' = "reset"
  /\ UNCHANGED <<patterns, statusOut, errReset, pre, ctxCanceled>>
  /\ UNCHANGED <<inputVars, head, index, modified, untracked, safeDir, runnerVars>>

\* lines 87-90 and 142-156: git ls-files -ci | xargs git rm --cached
CheckRemove ==
  /\ pc = "rm"
  /\ calls' = Append(calls, "git rm --cached")
  /\ \E ok \in BOOLEAN :
       IF ok
       THEN /\ index' = GitRemoveIgnoredFiles(index)
            /\ pc' = "ls"
            /\ UNCHANGED <<output, err, failedStep>>
       ELSE /\ output' = <<>>
            /\ err' = <<"git rm failed">>
            /\ failedStep' = "git rm --cached"
            /\ pc' = "reset"
            /\ UNCHANGED index
  /\ UNCHANGED <<patterns, statusOut, errReset, pre, ctxCanceled>>
  /\ UNCHANGED <<inputVars, head, gitignore, modified, untracked, safeDir, runnerVars>>

\* lines 92-104 and 184-199: GitListFiles and the report
CheckList ==
  /\ pc = "ls"
  /\ calls' = Append(calls, "git ls-files")
  /\ \E ok \in BOOLEAN :
       IF ok
       THEN /\ \E order \in Perms(c.skipPatterns) :
                 output' = NotOwnedIssues(GitLsFilesOutput(c.subDirectories), order)
            /\ err' = <<>>
            /\ UNCHANGED failedStep
       ELSE /\ output' = <<>>
            /\ err' = <<"git ls-files failed">>
            /\ failedStep' = "git ls-files"
  /\ pc' = "reset"
  /\ UNCHANGED <<patterns, statusOut, errReset, pre, ctxCanceled>>
  /\ UNCHANGED <<inputVars, repoVars, runnerVars>>

\* `git reset --hard`: the index and the tracked files go back to HEAD;
\* untracked files are left as they are
ResetIndex == head.files
ResetIgnoreFile == IF IgnoreFile \in head.files THEN HeadIgnore ELSE gitignore

\* lines 74-80 and 172-182: the deferred GitResetCurrentBranch
CheckReset ==
  /\ pc = "reset"
  /\ calls' = Append(calls, "git reset --hard")
  /\ \E ok \in BOOLEAN :
       /\ errReset' = IF ok THEN <<>> ELSE <<"git reset failed">>
       /\ IF ok
          THEN /\ index' = ResetIndex
               /\ gitignore' = ResetIgnoreFile
               /\ modified' = {}
          ELSE UNCHANGED <<index, gitignore, modified>>
       /\ output' = DeferredOutput(output, err)
       /\ err' = DeferredErr(err, errReset')
  /\ pc' = "done"
  /\ UNCHANGED <<patterns, statusOut, failedStep, pre, ctxCanceled>>
  /\ UNCHANGED <<inputVars, head, untracked, safeDir, runnerVars>>

\* the cancellation token is canceled from outside (a signal) at any moment
Cancel ==
  /\ ~ctxCanceled
  /\ exitCode = -1
  /\ ctxCanceled' = TRUE
  /\ UNCHANGED <<inputVars, repoVars, checkVars, runnerVars>>

CheckStep ==
  \/ CheckEntry
  \/ CheckTrust
  \/ CheckStatus
  \/ CheckAppend
  \/ CheckRemove
  \/ CheckList
  \/ CheckReset

\* ------------------------------------------------ the runner and the process
\* SeverityType, lowest first
SeverityOrder == <<"info", "warning", "error">>
Severities == Range(SeverityOrder)
SeverityRank(s) == CHOOSE i \in 1..Len(SeverityOrder) : SeverityOrder[i] = s

NoResult == [ran |-> FALSE, issues |-> 0, err |-> <<>>]

\* variant: the runner goes on after a hard error
RunAborted_never == FALSE
\* a hard error (or a cancellation seen by the runner) ends the run
RunAborted == runErr # <<>>

\* the runner executes one check at a time
RunnerMayLaunch == running = {}

\* the runner's loop head: it stops on a terminal error, consults the token
\* before a check and otherwise starts the next check of the list
RunnerLaunch ==
  /\ mainpc = "running"
  /\ ~RunAborted
  /\ nextCheck <= Len(checks)
  /\ RunnerMayLaunch
  /\ IF ctxCanceled
     THEN /\ runErr' = <<"context canceled">>
          /\ UNCHANGED <<nextCheck, running, checkVars>>
     ELSE /\ running' = running \cup {nextCheck}
          /\ nextCheck' = nextCheck + 1
          /\ UNCHANGED runErr
          /\ IF checks[nextCheck].kind = "notowned"
             THEN /\ pc = "idle"
                  /\ pc' = "entry"
                  /\ patterns' = <<>>
                  /\ statusOut' = {}
                  /\ output' = <<>>
                  /\ err' = <<>>
                  /\ errReset' = <<>>
                  /\ failedStep' = ""
                  /\ calls' = <<>>
                  /\ pre' = Snapshot
             ELSE UNCHANGED checkVars
  /\ UNCHANGED <<checks, threshold, results, mainpc, exitCode>>
  /\ UNCHANGED <<inputVars, repoVars, ctxCanceled>>

\* the runner records what a check returned; a hard error ends the run
Recorded(i, nIssues, e) ==
  /\ results' = [results EXCEPT ![i] = [ran |-> TRUE, issues |-> nIssues, err |-> e]]
  /\ running' = running \ {i}
  /\ runErr' = IF runErr = <<>> THEN e ELSE runErr

\* any other check returns: no issue, an issue, or a hard error
OtherCheckReturns ==
  /\ \E i \in running :
       /\ checks[i].kind = "other"
       /\ \E outcome \in {"pass", "issue", "error"} :
            Recorded(i, IF outcome = "issue" THEN 1 ELSE 0,
                     IF outcome = "error" THEN <<"check failed">> ELSE <<>>)
  /\ UNCHANGED <<checks, threshold, nextCheck, mainpc, exitCode>>
  /\ UNCHANGED <<inputVars, repoVars, ctxCanceled, checkVars>>

\* NotOwnedFile.Check returns to the runner
NotOwnedReturns ==
  /\ pc = "done"
  /\ \E i \in running :
       /\ checks[i].kind = "notowned"
       /\ Recorded(i, Len(output), err)
  /\ pc' = "idle"
  /\ UNCHANGED <<patterns, statusOut, output, err, errReset, failedStep, calls, pre>>
  /\ UNCHANGED <<checks, threshold, nextCheck, mainpc, exitCode>>
  /\ UNCHANGED <<inputVars, repoVars, ctxCanceled>>

\* Run returns when the list is exhausted or the run has a terminal error
RunnerDone ==
  /\ mainpc = "running"
  /\ running = {}
  /\ nextCheck > Len(checks) \/ RunAborted
  /\ mainpc' = "postrun"
  /\ UNCHANGED <<checks, threshold, nextCheck, running, results, runErr, exitCode>>
  /\ UNCHANGED <<inputVars, repoVars, ctxCanceled, checkVars>>

\* ShouldExitWithCheckFailure: the highest severity among the checks that
\* reported an issue is compared with the threshold
RECURSIVE HighestOccurred(_)
HighestOccurred(i) ==
  IF i = 0 THEN 0
  ELSE LET below == HighestOccurred(i - 1)
           mine == IF results[i].issues > 0 THEN SeverityRank(checks[i].severity) ELSE 0
       IN  IF mine > below THEN mine ELSE below
\* variant: only a severity strictly above the threshold fails the run
SeverityReached_strict(highest, limit) == highest > SeverityRank(limit)
SeverityReached(highest, limit) == highest >= SeverityRank(limit)
ShouldExitWithCheckFailure == SeverityReached(HighestOccurred(Len(checks)), threshold)

\* variant: the check failure is tested before the cancellation
ExitCode_failureFirst(canceled, checkFailure) ==
  IF checkFailure THEN 3 ELSE IF canceled THEN 2 ELSE 0
\* codeowners.go lines 53-59: the exit code after Run
ExitCode(canceled, checkFailure) ==
  IF canceled THEN 2 ELSE IF checkFailure THEN 3 ELSE 0

\* codeowners.go lines 50-51: the runner is built and Run is called
MainRun ==
  /\ mainpc = "start"
  /\ mainpc' = "running"
  /\ UNCHANGED <<checks, threshold, nextCheck, running, results, runErr, exitCode>>
  /\ UNCHANGED <<inputVars, repoVars, ctxCanceled, checkVars>>

\* codeowners.go lines 53-59: the process exits
MainExit ==
  /\ mainpc = "postrun"
  /\ exitCode' = ExitCode(ctxCanceled, ShouldExitWithCheckFailure)
  /\ mainpc' = "exited"
  /\ UNCHANGED <<checks, threshold, nextCheck, running, results, runErr>>
  /\ UNCHANGED <<inputVars, repoVars, ctxCanceled, checkVars>>

\* ------------------------------------------------------------ input space
EntryLists ==
  {[i \in 1..Len(ps) |-> [Pattern |-> ps[i], Owners |-> <<"@owner">>]] :
     ps \in SeqsUpTo(Patterns, MaxEntries)}
Configs ==
  [TrustWorkspace : BOOLEAN,
   SkipPatterns   : SeqsUpTo(Patterns, MaxSkip),
   Subdirectories : {<<>>, <<"d">>}]
\* committed ignore files: none, an empty one, a rule for an untracked build
\* product, a rule (without final newline) for a tracked file, and a rule
\* for a tracked directory
IgnoreContents == {<<>>, <<"x", NL>>, <<"b">>, <<"d/", NL>>}
Heads ==
  {[files |-> fs, ignore |-> <<>>] : fs \in {{"a", "b", "d/c"}, {"a"}}}
    \cup {[files |-> fs \cup {IgnoreFile}, ignore |-> ig] :
            fs \in {{"a", "b", "d/c"}, {"a"}}, ig \in IgnoreContents}
\* uncommitted changes: none, a modified tracked file, an untracked file,
\* an untracked file named x (ignored when the ignore file has the rule x)
WorktreeStates ==
  {[modified |-> {}, untracked |-> {}], [modified |-> {"a"}, untracked |-> {}],
   [modified |-> {}, untracked |-> {"u"}], [modified |-> {}, untracked |-> {"x"}]}

NoRunner ==
  /\ checks = <<>>
  /\ threshold = 0
  /\ nextCheck = 0
  /\ running = {}
  /\ results = <<>>
  /\ runErr = <<>>
  /\ mainpc = "none"
  /\ exitCode = -1

FreshFrame ==
  /\ patterns = <<>>
  /\ statusOut = {}
  /\ output = <<>>
  /\ err = <<>>
  /\ errReset = <<>>
  /\ failedStep = ""
  /\ calls = <<>>

\* one call of NotOwnedFile.Check on a repository, as a test drives it
Init ==
  /\ entries \in EntryLists
  /\ cfg \in Configs
  /\ ctxCanceled = FALSE
  /\ head \in Heads
  /\ index = head.files
  /\ gitignore = HeadIgnore
  /\ \E w \in WorktreeStates : modified = w.modified /\ untracked = w.untracked
  /\ safeDir = FALSE
  /\ pc = "entry"
  /\ FreshFrame
  /\ pre = Snapshot
  /\ NoRunner

Next ==
  \/ CheckStep
  \/ Cancel

Spec == Init /\ [][Next]_vars

\* the check lists of a run: the not-owned-file check among other checks
CheckKinds == {"notowned", "other"}
CheckLists ==
  SeqsUpTo([kind : CheckKinds, severity : Severities], MaxChecks)

\* the whole process: the root command runs the runner over the check list
InitRun ==
  /\ entries = <<[Pattern |-> "a", Owners |-> <<"@owner">>]>>
  /\ cfg = [TrustWorkspace |-> FALSE, SkipPatterns |-> <<>>, Subdirectories |-> <<>>]
  /\ ctxCanceled = FALSE
  /\ head \in {[files |-> {"a", "b"}, ignore |-> <<>>],
               [files |-> {"a", "b", IgnoreFile}, ignore |-> <<"x", NL>>]}
  /\ index = head.files
  /\ gitignore = HeadIgnore
  /\ modified = {}
  /\ untracked = {}
  /\ safeDir = FALSE
  /\ pc = "idle"
  /\ FreshFrame
  /\ pre = Snapshot
  /\ checks \in CheckLists
  /\ threshold \in Severities
  /\ nextCheck = 1
  /\ running = {}
  /\ results = [i \in 1..Len(checks) |-> NoResult]
  /\ runErr = <<>>
  /\ mainpc = "start"
  /\ exitCode = -1

NextRun ==
  \/ MainRun
  \/ RunnerLaunch
  \/ CheckStep
  \/ NotOwnedReturns
  \/ OtherCheckReturns
  \/ RunnerDone
  \/ MainExit
  \/ Cancel

SpecRun == InitRun /\ [][NextRun]_vars


\* ================================================================ properties
Done == pc = "done"

\* the tree was clean when Check was called: nothing modified, every
\* untracked file ignored
PreClean ==
  /\ pre.modified = {}
  /\ \A f \in pre.untracked : Ignored(f, pre.gitignore)

RepoAsBefore ==
  /\ gitignore = pre.gitignore
  /\ index = pre.index
  /\ modified = pre.modified
  /\ untracked = pre.untracked

Performed(op) == \E i \in 1..Len(calls) : calls[i] = op

\* the paths an issue list names: the atomic tokens of the bullet list
ReportedPaths ==
  IF output = <<>> THEN {}
  ELSE Range(output[1].Message.body) \ {Bullet, NL}

\* the patterns of the entries that are not skip-listed, from the inputs alone
EntryPatterns == [i \in 1..Len(entries) |-> entries[i].Pattern]
AppliedPatterns == Range(EntryPatterns) \ Range(cfg.SkipPatterns)
Owned(f) == \E p \in AppliedPatterns : Matches(p, f)

\* every step of the sequence ran and none failed
AllStepsSucceeded ==
  /\ Done
  /\ Performed("git ls-files")
  /\ err = <<>>
  /\ errReset = <<>>

\* C1: for a clean repository and non-empty entries, when Check returns (the
\* reset itself having succeeded) the ignore file and the index are what they
\* were before the call and no file exists that did not exist before.
C1_RestoredOnEveryExit ==
  (Done /\ PreClean /\ Len(entries) > 0 /\ errReset = <<>>)
    => /\ gitignore = pre.gitignore
       /\ index = pre.index
       /\ WorktreeFiles \subseteq pre.files

\* C2: when the status query reported an uncommitted change, Check returns
\* exactly one issue and no error, and has appended nothing, removed nothing
\* from the index, listed nothing and reset nothing.
C2_DirtyShortCircuit ==
  (Done /\ statusOut # {})
    => /\ Len(output) = 1
       /\ err = <<>>
       /\ ~Performed("append")
       /\ ~Performed("git rm --cached")
       /\ ~Performed("git ls-files")
       /\ ~Performed("git reset --hard")
       /\ RepoAsBefore
C2_Witness ==
  /\ Done
  /\ statusOut = {"a"}
  /\ pre.modified = {"a"}
  /\ Len(entries) > 0
  /\ output = <<DirtyIssue>>
  /\ modified = {"a"}

\* C3 as stated: with zero entries Check reports exactly one issue, whatever
\* the repository and the configuration, and runs no git command.
C3_EmptyEntriesAlways ==
  (Done /\ Len(entries) = 0)
    => /\ Len(output) = 1
       /\ calls = <<>>
       /\ RepoAsBefore
\* C3 amended: with zero entries and a token that the entry test finds not
\* canceled, Check reports exactly one issue and no error, whatever the
\* repository and the configuration, runs no git command and changes nothing.
C3_EmptyEntriesShortcut ==
  (Done /\ Len(entries) = 0 /\ ~pre.canceled)
    => /\ Len(output) = 1
       /\ err = <<>>
       /\ calls = <<>>
       /\ safeDir = FALSE
       /\ RepoAsBefore
C3_Witness ==
  /\ Done
  /\ Len(entries) = 0
  /\ ~pre.canceled
  /\ cfg.TrustWorkspace
  /\ pre.modified # {}
  /\ output = <<EmptyIssue>>

\* C4 as stated: on the successful path over a clean tree the reported paths
\* are exactly the tracked files no applied pattern matches.
C4_ReportedExactlyUnowned ==
  (AllStepsSucceeded /\ PreClean /\ Len(entries) > 0)
    => ReportedPaths = {f \in pre.index : ~Owned(f)}
\* C4 amended: on the successful path over a clean tree the reported paths
\* are exactly the tracked files, under the configured subdirectories when
\* some are configured, that no applied ownership pattern matches and that no
\* ignore rule already in the ignore file matches.
C4_ReportedUnownedListed ==
  (AllStepsSucceeded /\ PreClean /\ Len(entries) > 0)
    => ReportedPaths =
         {f \in pre.index : /\ ~Owned(f)
                            /\ ~Ignored(f, pre.gitignore)
                            /\ UnderSubdirs(f, cfg.Subdirectories)}
C4_Witness ==
  /\ AllStepsSucceeded
  /\ PreClean
  /\ pre.index = {"a", "b", "d/c"}
  /\ EntryPatterns = <<"a", "b">>
  /\ cfg.SkipPatterns = <<"a">>
  /\ cfg.Subdirectories = <<>>
  /\ ReportedPaths = {"a", "d/c"}

\* C5: the patterns computed at entry are the entry patterns, in entry order
\* and with their repetitions, without those in the skip set.
C5_PatternsAreFilteredEntries ==
  (pc # "entry" /\ pc # "idle" /\ ~pre.canceled /\ Len(entries) > 0)
    => patterns = SelectSeq(EntryPatterns, LAMBDA p : p \notin Range(cfg.SkipPatterns))
C5_Witness ==
  /\ pc = "trust"
  /\ EntryPatterns = <<"b", "a", "b">>
  /\ cfg.SkipPatterns = <<"a">>
  /\ patterns = <<"b", "b">>

\* C6: a failure of the reset is part of the error Check returns, whether or
\* not an earlier step failed.
C6_ResetFailureReturned ==
  (Done /\ errReset # <<>>)
    => /\ err # <<>>
       /\ Range(errReset) \subseteq Range(err)


\* C7: after the run the exit code is 2 whenever the token is canceled, also
\* when a check failure is due; 3 exactly when the token is not canceled and
\* ShouldExitWithCheckFailure holds; 0 otherwise.
C7_ExitCode ==
  mainpc = "exited"
    => /\ ctxCanceled => exitCode = 2
       /\ (exitCode = 3) <=> (~ctxCanceled /\ ShouldExitWithCheckFailure)
       /\ (exitCode = 0) <=> (~ctxCanceled /\ ~ShouldExitWithCheckFailure)
C7_Witness ==
  /\ mainpc = "exited"
  /\ ctxCanceled
  /\ ShouldExitWithCheckFailure
  /\ exitCode = 2

Launched(i) == i < nextCheck

\* C8: once a check has returned a hard error no later check is ever started
\* and that error is the run's terminal error; and a run that ended with no
\* terminal error and no cancellation has started every check, whatever
\* issues the checks reported.
C8_AbortOnHardError ==
  /\ \A i \in 1..Len(checks) :
       results[i].err # <<>>
         => /\ runErr = results[i].err
            /\ \A j \in (i + 1)..Len(checks) : ~Launched(j)
  /\ (mainpc \in {"postrun", "exited"} /\ runErr = <<>> /\ ~ctxCanceled)
       => \A i \in 1..Len(checks) : results[i].ran
C8_Witness ==
  /\ mainpc = "postrun"
  /\ Len(checks) = 2
  /\ results[1].err # <<>>
  /\ ~results[2].ran
  /\ runErr = results[1].err

\* C9: the run should fail exactly when some executed check reported an
\* issue and has a severity at or above the threshold in info < warning < error.
AtLeast(sev, limit) ==
  \/ sev = limit
  \/ limit = "info"
  \/ sev = "error"
C9_ThresholdAggregation ==
  ShouldExitWithCheckFailure
    <=> \E i \in 1..Len(checks) :
          /\ results[i].ran
          /\ results[i].issues > 0
          /\ AtLeast(checks[i].severity, threshold)
C9_Witness ==
  /\ mainpc = "postrun"
  /\ Len(checks) = 2
  /\ threshold = "warning"
  /\ checks[1].severity = "info"
  /\ results[1].issues > 0
  /\ checks[2].severity = "warning"
  /\ results[2].issues > 0
  /\ ShouldExitWithCheckFailure

\* C10: no other check executes while the not-owned-file check is between
\* its append and the end of its reset, and no other check executes on a tree
\* that still shows the appended ignore rules or the pruned index.
InMutationWindow == pc \in {"rm", "ls", "reset"}
MutationVisible == gitignore # pre.gitignore \/ index # pre.index
OtherCheckRunning == \E i \in running : checks[i].kind = "other"
C10_NoPartialStateObserved ==
  OtherCheckRunning => (~InMutationWindow /\ ~MutationVisible)


\* ------------------------------------------------------ claims C11 to C20
GitReset == "git reset --hard"
GitSubprocesses == {"git config", "git status", "git rm --cached", "git ls-files", GitReset}
Count(op) == Cardinality({i \in 1..Len(calls) : calls[i] = op})
Position(op) == CHOOSE i \in 1..Len(calls) : calls[i] = op
Before(op1, op2) == Performed(op1) /\ Performed(op2) /\ Position(op1) < Position(op2)

\* C11: once the token is canceled, Check starts no git subprocess other
\* than the restoration reset.
C11_NoSubprocessOnceCanceled ==
  [][(ctxCanceled /\ calls' # calls /\ calls' # <<>>)
       => calls'[Len(calls')] \notin (GitSubprocesses \ {GitReset})]_vars

\* the status query was made, succeeded and printed nothing
StatusPassedClean ==
  /\ Performed("git status")
  /\ failedStep # "git status"
  /\ statusOut = {}

\* C12: when Check returns, the reset was run exactly once if the status
\* query succeeded and reported a clean tree and not at all otherwise, and
\* when it was run it is the last operation.
C12_ResetExactlyOnce ==
  Done
    => /\ Count(GitReset) = (IF StatusPassedClean THEN 1 ELSE 0)
       /\ Performed(GitReset) => calls[Len(calls)] = GitReset
C12_Witness ==
  /\ Done
  /\ failedStep = "git rm --cached"
  /\ calls = <<"git status", "append", "git rm --cached", GitReset>>

\* the steps of the sequence, in order
StepOrder == <<"git config", "git status", "append", "git rm --cached", "git ls-files">>
StepIndex(op) == CHOOSE i \in 1..Len(StepOrder) : StepOrder[i] = op

\* C13: when a step failed, no later step of the sequence was run, the reset
\* was run exactly when the failure came after the status step, and Check
\* returns an error and no issue.
C13_TerminalOnFirstFailure ==
  (Done /\ failedStep # "")
    => /\ err # <<>>
       /\ output = <<>>
       /\ \A j \in (StepIndex(failedStep) + 1)..Len(StepOrder) : ~Performed(StepOrder[j])
       /\ Performed(GitReset) <=> failedStep \in {"append", "git rm --cached", "git ls-files"}
C13_Witness ==
  /\ Done
  /\ failedStep = "git ls-files"
  /\ errReset # <<>>
  /\ err = <<"git ls-files failed", "git reset failed">>
  /\ output = <<>>

\* C14: with a token found canceled at entry, Check returns the token's error
\* and no issue and has done nothing: no registration, no status query, no
\* write, no index change, no reset; also with an empty entry list.
C14_CanceledAtEntry ==
  (Done /\ pre.canceled)
    => /\ err = <<"context canceled">>
       /\ output = <<>>
       /\ calls = <<>>
       /\ safeDir = FALSE
       /\ RepoAsBefore
C14_Witness ==
  /\ Done
  /\ pre.canceled
  /\ Len(entries) = 0
  /\ cfg.TrustWorkspace
  /\ output = <<>>

\* C15: after a successful append the ignore file is its former content,
\* then one newline, then each pattern followed by a newline, in order; every
\* appended pattern is a rule of its own, whatever the former content ended with.
C15_AppendedBlock ==
  pc = "rm"
    => LET old == pre.gitignore.content
           new == gitignore.content
           n   == Len(old)
       IN  /\ gitignore.exists
           /\ Len(new) = n + 1 + 2 * Len(patterns)
           /\ SubSeq(new, 1, n) = old
           /\ new[n + 1] = NL
           /\ \A i \in 1..Len(patterns) :
                /\ new[n + 2 * i] = patterns[i]
                /\ new[n + 2 * i + 1] = NL
                /\ <<patterns[i]>> \in Range(IgnoreRules(gitignore))
C15_Witness ==
  /\ pc = "rm"
  /\ pre.gitignore.content = <<"b">>
  /\ patterns = <<"a">>
  /\ gitignore.content = <<"b", NL, "a", NL>>

\* C16: the registration is made only when configured and then before every
\* other operation and every change of the working tree; a failed
\* registration ends Check with an error, no issue and nothing else done.
C16_TrustFirst ==
  /\ Performed("git config")
       => /\ cfg.TrustWorkspace
          /\ calls[1] = "git config"
          /\ Count("git config") = 1
  /\ ~cfg.TrustWorkspace => safeDir = FALSE
  /\ (cfg.TrustWorkspace /\ calls # <<>>) => calls[1] = "git config"
  /\ (cfg.TrustWorkspace /\ (gitignore # pre.gitignore \/ index # pre.index)) => safeDir
  /\ (Done /\ failedStep = "git config")
       => /\ err # <<>>
          /\ output = <<>>
          /\ calls = <<"git config">>
          /\ safeDir = FALSE
          /\ RepoAsBefore
C16_Witness ==
  /\ Done
  /\ failedStep = "git config"
  /\ calls = <<"git config">>

\* the tracked files that no applied pattern and no rule already in the
\* ignore file matches
RemainingTracked == {f \in pre.index : ~Owned(f) /\ ~Ignored(f, pre.gitignore)}

\* C17 as stated: with subdirectories configured the reported paths are
\* exactly the tracked files under them that no applied pattern matches.
C17_ReportedUnownedUnderSubdirs ==
  (AllStepsSucceeded /\ PreClean /\ cfg.Subdirectories # <<>>)
    => ReportedPaths =
         {f \in pre.index : ~Owned(f) /\ UnderSubdirs(f, cfg.Subdirectories)}
\* C17 amended: the pruning covers the whole tree whatever subdirectories are
\* configured, and the reported paths are exactly the tracked files under the
\* configured subdirectories (the whole tree when none is configured) that no
\* applied ownership pattern and no rule already in the ignore file matches.
C17_SubdirsRestrictListingOnly ==
  /\ pc = "ls" => index = RemainingTracked
  /\ (AllStepsSucceeded /\ PreClean)
       => /\ ReportedPaths \subseteq RemainingTracked
          /\ \A f \in RemainingTracked :
               f \in ReportedPaths
                 <=> (cfg.Subdirectories = <<>> \/ DirOf(f) \in Range(cfg.Subdirectories))
C17_Witness ==
  /\ AllStepsSucceeded
  /\ cfg.Subdirectories = <<"d">>
  /\ pre.index = {"a", "b", "d/c"}
  /\ RemainingTracked = {"b", "d/c"}
  /\ ReportedPaths = {"d/c"}

Occurrences(t, x) == Cardinality({i \in 1..Len(t) : t[i] = x})

\* C18: when the listing succeeds, an issue is emitted exactly when it lists
\* a path; it is then one issue whose count is the number of listed paths and
\* whose bullet list names each listed path once and nothing else.
C18_OneIssueForTheListing ==
  [][(pc = "ls" /\ pc' = "reset" /\ failedStep' = "")
       => LET listed == {f \in index : UnderSubdirs(f, cfg.Subdirectories)}
          IN  /\ output' = <<>> <=> listed = {}
              /\ listed # {}
                   => /\ Len(output') = 1
                      /\ output'[1].Message.count = Cardinality(listed)
                      /\ Occurrences(output'[1].Message.body, Bullet) = Cardinality(listed)
                      /\ \A f \in listed : Occurrences(output'[1].Message.body, f) = 1
                      /\ Range(output'[1].Message.body) \ {Bullet, NL} = listed]_vars
C18_Witness ==
  /\ AllStepsSucceeded
  /\ Len(output) = 1
  /\ output[1].Message.count = 2
  /\ ReportedPaths = {"b", "d/c"}

\* C19: Check never returns more than one issue, never an error together
\* with an issue, and the three expected conditions return their issue with
\* a nil error.
C19_IssueOrError ==
  Done
    => /\ Len(output) <= 1
       /\ err # <<>> => output = <<>>
       /\ (~pre.canceled /\ Len(entries) = 0) => (output = <<EmptyIssue>> /\ err = <<>>)
       /\ statusOut # {} => (output = <<DirtyIssue>> /\ err = <<>>)
       /\ (Performed("git ls-files") /\ failedStep = "" /\ errReset = <<>>
             /\ \E f \in RemainingTracked : UnderSubdirs(f, cfg.Subdirectories))
            => (Len(output) = 1 /\ err = <<>>)
C19_Witness ==
  /\ Done
  /\ Performed("git ls-files")
  /\ failedStep = ""
  /\ Len(output) = 1
  /\ output[1].Message.count = 3
  /\ err = <<>>

\* C20: the ignore file is written at most once and only after a status
\* query that reported a clean tree; the pruning only after a successful
\* write; the listing only after a successful pruning, so that the index
\* being listed holds no path the ignore file matches.
C20_StepOrdering ==
  /\ Count("append") <= 1
  /\ Performed("append")
       => (Before("git status", "append") /\ StatusPassedClean)
  /\ Performed("git rm --cached")
       => (Before("append", "git rm --cached") /\ failedStep # "append")
  /\ Performed("git ls-files")
       => (Before("git rm --cached", "git ls-files") /\ failedStep # "git rm --cached")
  /\ pc = "ls"
       => /\ GitIgnoredTracked = {}
          /\ \A i \in 1..Len(patterns) : <<patterns[i]>> \in Range(IgnoreRules(gitignore))
C20_Witness ==
  /\ pc = "ls"
  /\ calls = <<"git status", "append", "git rm --cached">>
  /\ index # pre.index
  /\ GitIgnoredTracked = {}

====
